---- MODULE Spec2Model ----
(***************************************************************************)
(* A model of the calendar booking assistant: the calendar service         *)
(* (backend/services/calendar_service.py), the three agent tools and the   *)
(* agent loop (backend/services/ai_agent.py).                              *)
(*                                                                         *)
(* Time is an integer number of minutes since 2024-05-30 00:00, a          *)
(* Thursday, so that day 4 is Monday 2024-06-03.  A timestamp string is a  *)
(* record [fmt, t]: its textual form and the wall-clock time it spells.    *)
(***************************************************************************)
EXTENDS Integers, Sequences, FiniteSets, TLC

VARIABLES
    is_available,   \* CalendarService.is_available, set once by __init__
    calendar,       \* the events stored at the remote calendar provider
    last,           \* the call that has just returned: arguments and outcome
    sessions,       \* AIBookingAgent.sessions: session id -> transcript
    task,           \* the process_message invocations in flight, one per task
    invocations     \* the number of process_message invocations started

vars == <<is_available, calendar, last, sessions, task, invocations>>

agentVars == <<sessions, task, invocations>>

----------------------------------------------------------------------------
(* Bounds of the model *)

MaxDay == 4         \* date arguments name the days 0..MaxDay
MaxEvents == 2      \* events stored at the provider
MaxFields == 5      \* pipe-separated fields of a booking text
MaxInvocations == 5  \* invocations of process_message in a run
MaxSequential == 3   \* invocations of the single caller, with the executor loop
MaxFailing == 2      \* concurrent invocations among which a model call may raise

(* Constants of the program *)

WorkdayStartHour == 9
WorkdayEndHour == 17
MaxSlots == 20
MockCap == 10
ToolSlotLimit == 10
DefaultDuration == 60
DefaultRangeDays == 7
MinFields == 4
max_iterations == 5
HistoryWindow == 6

DayMinutes == 24 * 60
HourMinutes == 1 * 60

Durations == {30, 60}

----------------------------------------------------------------------------
(* Timestamps and their textual forms *)

\* "date"  2024-06-03            "dt"   2024-06-03T09:30:00
\* "dtz"   2024-06-03T09:30:00Z  "dto"  2024-06-03T09:30:00+00:00
\* "dts"   2024-06-03 09:30:00   "bad"  next monday      "badT"  Tomorrow
Str(f, time) == [fmt |-> f, t |-> time]

BadStr == Str("bad", 0)
BadTStr == Str("badT", 0)

Min2(a, b) == IF a <= b THEN a ELSE b

Take(s, n) == SubSeq(s, 1, Min2(n, Len(s)))

\* date.weekday(): Monday = 0 ... Sunday = 6; day 0 is a Thursday
weekday(day) == (day + 3) % 7

\* datetime.date(), as a day number
DateOf(time) == time \div DayMinutes

\* datetime.combine(current_date, datetime.min.time().replace(hour=hour))
Combine(day, hour) == day * DayMinutes + hour * HourMinutes

\* datetime.fromisoformat(s): [ok, t, aware]; ok = FALSE is a ValueError
fromisoformat(s) ==
    CASE s.fmt = "date" -> [ok |-> TRUE, t |-> DateOf(s.t) * DayMinutes, aware |-> FALSE]
      [] s.fmt = "dt"   -> [ok |-> TRUE, t |-> s.t, aware |-> FALSE]
      [] s.fmt = "dts"  -> [ok |-> TRUE, t |-> s.t, aware |-> FALSE]
      [] s.fmt = "dtz"  -> [ok |-> TRUE, t |-> s.t, aware |-> TRUE]
      [] s.fmt = "dto"  -> [ok |-> TRUE, t |-> s.t, aware |-> TRUE]
      [] OTHER          -> [ok |-> FALSE, t |-> 0, aware |-> FALSE]

\* naive datetime.isoformat()
isoformat(time) == Str("dt", time)

\* str.replace('Z', '+00:00') and str.replace('Z', '')
ReplaceZ(s, offset) ==
    IF s.fmt = "dtz" THEN Str(IF offset THEN "dto" ELSE "dt", s.t) ELSE s

\* strftime('%Y-%m-%d')
DateStr(day) == Str("date", day * DayMinutes)

\* 'T' in s
HasT(s) == s.fmt \in {"dt", "dtz", "dto", "badT"}

\* s += 'T00:00:00'
AppendMidnight(s) ==
    IF s.fmt = "date" THEN Str("dt", DateOf(s.t) * DayMinutes) ELSE BadStr

----------------------------------------------------------------------------
(* The remote calendar provider *)

Behaviours == {"ok", "http", "exc"}

Ev(i, s, e) == [id |-> i, start_time |-> s, end_time |-> e]

\* The events the provider may hold at start-up.
EventPool ==
    { Ev(1, Str("dtz", 9 * 60 + 30), Str("dtz", 10 * 60 + 30)),
      Ev(2, Str("dt", 10 * 60), Str("dt", 11 * 60)),
      Ev(3, Str("dtz", 8 * 60), Str("dtz", 12 * 60)),
      Ev(4, Str("date", DayMinutes), Str("date", 2 * DayMinutes)),
      Ev(5, Str("bad", 11 * 60), Str("bad", 12 * 60)),
      Ev(6, Str("dtz", 4 * DayMinutes + 9 * 60), Str("dtz", 4 * DayMinutes + 10 * 60)) }

\* The instant a stored event holds, whatever its textual form
Instant(s) == s.t

RECURSIVE SortByStart(_)
SortByStart(S) ==
    IF S = {} THEN <<>>
    ELSE LET first == CHOOSE e \in S :
                 \A f \in S : \/ Instant(e.start_time) < Instant(f.start_time)
                              \/ /\ Instant(e.start_time) = Instant(f.start_time)
                                 /\ e.id <= f.id
         IN <<first>> \o SortByStart(S \ {first})

\* events().list(timeMin, timeMax, singleEvents=True, orderBy='startTime'):
\* the events ending after timeMin and starting before timeMax, by start
ListEvents(cal, timeMin, timeMax) ==
    SortByStart({ e \in cal : /\ Instant(e.end_time) > timeMin
                              /\ Instant(e.start_time) < timeMax })

----------------------------------------------------------------------------
(* CalendarService *)

\* _check_availability
check_availability(avail) == avail

GetEventsResult(r, x, evs, n) ==
    [raised |-> r, exc |-> x, events |-> evs, listCalls |-> n]

\* get_events(start_date, end_date)
get_events(avail, cal, beh, start_date, end_date) ==
    IF ~check_availability(avail) THEN GetEventsResult(FALSE, "", <<>>, 0)
    ELSE IF ~fromisoformat(start_date).ok \/ ~fromisoformat(end_date).ok
         THEN GetEventsResult(TRUE, "ValueError", <<>>, 0)
    ELSE IF beh = "http" THEN GetEventsResult(FALSE, "", <<>>, 1)
    ELSE IF beh = "exc" THEN GetEventsResult(TRUE, "Exception", <<>>, 1)
    ELSE GetEventsResult(FALSE, "",
             ListEvents(cal, fromisoformat(start_date).t, fromisoformat(end_date).t), 1)

Slot(s, e) == [start_time |-> isoformat(s), end_time |-> isoformat(e), available |-> TRUE]

IsWeekdayMut(day) == weekday(day) <= 5

\* if current_date.weekday() < 5
IsWeekday(day) == weekday(day) < 5

TruncateMut(slots) == slots

\* available_slots[:20]
Truncate(slots) == Take(slots, MaxSlots)

MockTruncateMut(slots) == slots

\* available_slots[:10]
MockTruncate(slots) == Take(slots, MockCap)

OverlapsMut(slot_start, slot_end, event_start, event_end) ==
    slot_start <= event_end /\ slot_end >= event_start

\* the overlap test of one slot against one event
Overlaps(slot_start, slot_end, event_start, event_end) ==
    slot_start < event_end /\ slot_end > event_start

\* the loop over existing_events for one slot: "free", "busy" or "error"
RECURSIVE SlotStatus(_, _, _, _)
SlotStatus(slot_start, slot_end, events, i) ==
    IF i > Len(events) THEN "free"
    ELSE LET event_start == fromisoformat(ReplaceZ(events[i].start_time, TRUE))
             event_end == fromisoformat(ReplaceZ(events[i].end_time, TRUE))
         IN IF ~event_start.ok \/ ~event_end.ok THEN "error"
            ELSE IF Overlaps(slot_start, slot_end, event_start.t, event_end.t)
                 THEN "busy"
            ELSE SlotStatus(slot_start, slot_end, events, i + 1)

\* for hour in range(9, 17)
RECURSIVE HourLoop(_, _, _, _, _)
HourLoop(day, hour, duration, events, acc) ==
    IF hour >= WorkdayEndHour \/ acc.err THEN acc
    ELSE LET slot_start == Combine(day, hour)
             slot_end == slot_start + duration
             st == SlotStatus(slot_start, slot_end, events, 1)
         IN HourLoop(day, hour + 1, duration, events,
                CASE st = "error" -> [acc EXCEPT !.err = TRUE]
                  [] st = "free"  -> [acc EXCEPT !.slots = Append(@, Slot(slot_start, slot_end))]
                  [] OTHER        -> acc)

\* while current_date <= end_dt.date()
RECURSIVE DayLoop(_, _, _, _, _)
DayLoop(current_date, end_day, duration, events, acc) ==
    IF current_date > end_day \/ acc.err THEN acc
    ELSE DayLoop(current_date + 1, end_day, duration, events,
             IF IsWeekday(current_date)
             THEN HourLoop(current_date, WorkdayStartHour, duration, events, acc)
             ELSE acc)

\* for hour in [9, 11, 14, 16]
MockHours == <<9, 11, 14, 16>>

RECURSIVE MockHourLoop(_, _, _, _)
MockHourLoop(day, i, duration, slots) ==
    IF i > Len(MockHours) THEN slots
    ELSE MockHourLoop(day, i + 1, duration,
             Append(slots, Slot(Combine(day, MockHours[i]),
                                Combine(day, MockHours[i]) + duration)))

\* while current_date <= end_dt.date() and len(available_slots) < 10
RECURSIVE MockDayLoop(_, _, _, _)
MockDayLoop(current_date, end_day, duration, slots) ==
    IF current_date > end_day \/ Len(slots) >= MockCap THEN slots
    ELSE MockDayLoop(current_date + 1, end_day, duration,
             IF weekday(current_date) < 5
             THEN MockHourLoop(current_date, 1, duration, slots)
             ELSE slots)

AvailResult(r, x, s, m, evs, n) ==
    [raised |-> r, exc |-> x, slots |-> s, usedMock |-> m,
     existing |-> evs, listCalls |-> n]

\* _get_mock_availability(start_date, end_date, duration_minutes)
get_mock_availability(start_date, end_date, duration, evs, n) ==
    LET start_dt == fromisoformat(start_date)
        end_dt == fromisoformat(end_date)
    IN IF ~start_dt.ok \/ ~end_dt.ok
       THEN AvailResult(TRUE, "ValueError", <<>>, TRUE, evs, n)
       ELSE AvailResult(FALSE, "",
                MockTruncate(MockDayLoop(DateOf(start_dt.t), DateOf(end_dt.t),
                                         duration, <<>>)),
                TRUE, evs, n)

\* get_availability(start_date, end_date, duration_minutes)
get_availability(avail, cal, beh, start_date, end_date, duration) ==
    IF ~check_availability(avail)
    THEN get_mock_availability(start_date, end_date, duration, <<>>, 0)
    ELSE LET got == get_events(avail, cal, beh, start_date, end_date)
             start_dt == fromisoformat(start_date)
             end_dt == fromisoformat(end_date)
         IN IF got.raised \/ ~start_dt.ok \/ ~end_dt.ok
            THEN get_mock_availability(start_date, end_date, duration, <<>>, got.listCalls)
            ELSE LET loop == DayLoop(DateOf(start_dt.t), DateOf(end_dt.t), duration,
                                     got.events, [err |-> FALSE, slots |-> <<>>])
                 IN IF loop.err
                    THEN get_mock_availability(start_date, end_date, duration,
                                               got.events, got.listCalls)
                    ELSE AvailResult(FALSE, "", Truncate(loop.slots), FALSE,
                                     got.events, got.listCalls)

----------------------------------------------------------------------------
(* The arguments callers pass *)

Days == 0 .. MaxDay

\* date arguments: a date or an unparsable text; an end may also be the last
\* minute of a date
StartArgs == { DateStr(d) : d \in Days } \cup { BadStr }

EndArgs == StartArgs \cup { Str("dt", d * DayMinutes + DayMinutes - 1) : d \in Days }

NoId == [prefix |-> "", n |-> 0]

NoText == [head |-> "", lines |-> <<>>, eventId |-> NoId, note |-> ""]

Text(h, l, i, n) == [head |-> h, lines |-> l, eventId |-> i, note |-> n]

NoArgs ==
    [start |-> BadStr, end |-> BadStr, duration |-> 0, kind |-> "", nfields |-> 0,
     event_id |-> 0]

NoCall ==
    [op |-> "none", args |-> NoArgs, beh |-> "ok", raised |-> FALSE, exc |-> "",
     slots |-> <<>>, usedMock |-> FALSE, existing |-> <<>>, text |-> NoText,
     failed |-> FALSE, listCalls |-> 0, createCalls |-> 0, insertCalls |-> 0,
     created |-> {}, deleteCalls |-> 0, deleted |-> {}, event_id |-> NoId,
     success |-> FALSE]

----------------------------------------------------------------------------
(* The tools of the agent: AIBookingAgent._create_tools *)

AvailabilityNote == "Note: Showing demo availability (Google Calendar not connected)"
BookingNote == "Note: This is a demo booking (Google Calendar not connected)"
EventsNote == "Note: No events shown (Google Calendar not connected)"

AvailabilityErrorPrefix == "Error checking availability: "
BookingErrorPrefix == "Error booking appointment: "
InvalidFormatPrefix == "Invalid booking format"
EventsErrorPrefix == "Error getting events: "

\* the outcome of a tool body; raised = an exception left the body
ToolResult(r, x, txt, f) ==
    [raised |-> r, exc |-> x, text |-> txt, failed |-> f, slots |-> <<>>,
     usedMock |-> FALSE, existing |-> <<>>, listCalls |-> 0, createCalls |-> 0,
     insertCalls |-> 0, created |-> {}]

CatchMut(body, prefix) ==
    IF body.raised /\ body.exc = "ValueError"
    THEN [body EXCEPT !.raised = FALSE, !.failed = TRUE,
                      !.text = Text(prefix, <<>>, NoId, "")]
    ELSE body

\* except Exception as e: return f"<prefix>{str(e)}"
Catch(body, prefix) ==
    IF body.raised
    THEN [body EXCEPT !.raised = FALSE, !.failed = TRUE,
                      !.text = Text(prefix, <<>>, NoId, "")]
    ELSE body

\* parse_date_range(input_str): "<start> to <end>", else [today, today + 7 days]
parse_date_range(input, today) ==
    IF input.kind = "range"
    THEN <<input.start, input.end>>
    ELSE <<DateStr(today), DateStr(today + DefaultRangeDays)>>

\* the lines of availability[:10], one per slot
RECURSIVE SlotLines(_, _)
SlotLines(availability, i) ==
    IF i > Len(availability) THEN [err |-> FALSE, lines |-> <<>>]
    ELSE LET start_time == fromisoformat(availability[i].start_time)
             rest == SlotLines(availability, i + 1)
         IN IF ~start_time.ok \/ rest.err THEN [err |-> TRUE, lines |-> <<>>]
            ELSE [err |-> FALSE, lines |-> <<start_time.t>> \o rest.lines]

\* check_availability_tool(date_range)
check_availability_tool(avail, cal, beh, input, today) ==
    LET range == parse_date_range(input, today)
        a == get_availability(avail, cal, beh, range[1], range[2], DefaultDuration)
        got == [ToolResult(a.raised, a.exc, NoText, FALSE) EXCEPT
                   !.slots = a.slots, !.usedMock = a.usedMock,
                   !.existing = a.existing, !.listCalls = a.listCalls]
        fmt == SlotLines(Take(a.slots, ToolSlotLimit), 1)
    IN Catch(
         IF a.raised THEN got
         ELSE IF a.slots = <<>>
              THEN [got EXCEPT !.text =
                       Text("No available slots found for the specified date range.",
                            <<>>, NoId, "")]
         ELSE IF fmt.err THEN [got EXCEPT !.raised = TRUE, !.exc = "ValueError"]
         ELSE [got EXCEPT !.text =
                  Text("Available time slots:", fmt.lines, NoId,
                       IF ~avail THEN AvailabilityNote ELSE "")],
         AvailabilityErrorPrefix)

\* the id the provider gives a new event
\* the id the provider gives a new event: one no event of the calendar has
FreshId(cal) ==
    CHOOSE n \in (Cardinality(EventPool) + 1) .. (Cardinality(EventPool) + Cardinality(cal) + 1) :
        /\ \A e \in cal : e.id # n
        /\ \A k \in (Cardinality(EventPool) + 1) .. (n - 1) : \E e \in cal : e.id = k

CreateResult(r, x, i, n, evs) ==
    [raised |-> r, exc |-> x, id |-> i, insertCalls |-> n, created |-> evs]

create_eventMut(avail, cal, beh, start_time, end_time, now) ==
    IF beh = "http" THEN CreateResult(TRUE, "HttpError", NoId, 1, {})
    ELSE IF beh = "exc" THEN CreateResult(TRUE, "Exception", NoId, 1, {})
    ELSE CreateResult(FALSE, "", [prefix |-> "", n |-> FreshId(cal)], 1,
             { Ev(FreshId(cal), Str("dtz", fromisoformat(start_time).t),
                  Str("dtz", fromisoformat(end_time).t)) })

create_eventConflictMut(avail, cal, beh, start_time, end_time, now) ==
    IF ~check_availability(avail)
    THEN CreateResult(FALSE, "", [prefix |-> "mock_event_", n |-> now], 0, {})
    ELSE IF beh = "http" THEN CreateResult(TRUE, "HttpError", NoId, 1, {})
    ELSE IF beh = "exc" THEN CreateResult(TRUE, "Exception", NoId, 1, {})
    ELSE IF \/ fromisoformat(end_time).t <= fromisoformat(start_time).t
            \/ \E e \in cal : /\ fromisoformat(start_time).t < Instant(e.end_time)
                              /\ fromisoformat(end_time).t > Instant(e.start_time)
         THEN CreateResult(TRUE, "Conflict", NoId, 0, {})
    ELSE CreateResult(FALSE, "", [prefix |-> "", n |-> FreshId(cal)], 1,
             { Ev(FreshId(cal), Str("dtz", fromisoformat(start_time).t),
                  Str("dtz", fromisoformat(end_time).t)) })

\* create_event(title, description, start_time, end_time, attendee_email)
create_event(avail, cal, beh, start_time, end_time, now) ==
    IF ~check_availability(avail)
    THEN CreateResult(FALSE, "", [prefix |-> "mock_event_", n |-> now], 0, {})
    ELSE IF beh = "http" THEN CreateResult(TRUE, "HttpError", NoId, 1, {})
    ELSE IF beh = "exc" THEN CreateResult(TRUE, "Exception", NoId, 1, {})
    ELSE CreateResult(FALSE, "", [prefix |-> "", n |-> FreshId(cal)], 1,
             { Ev(FreshId(cal), Str("dtz", fromisoformat(start_time).t),
                  Str("dtz", fromisoformat(end_time).t)) })

DeleteResult(r, x, v, n, evs) ==
    [raised |-> r, exc |-> x, value |-> v, deleteCalls |-> n, deleted |-> evs]

\* delete_event(event_id); events().delete of an id the calendar does not hold
\* is answered with an HttpError
delete_event(avail, cal, beh, event_id) ==
    IF ~check_availability(avail) THEN DeleteResult(FALSE, "", TRUE, 0, {})
    ELSE IF beh = "exc" THEN DeleteResult(TRUE, "Exception", FALSE, 1, {})
    ELSE IF beh = "http" \/ ~\E e \in cal : e.id = event_id
    THEN DeleteResult(FALSE, "", FALSE, 1, {})
    ELSE DeleteResult(FALSE, "", TRUE, 1, { e \in cal : e.id = event_id })

ValidIsoMut(start_time, end_time) == fromisoformat(start_time).ok

\* datetime.fromisoformat(start_time); datetime.fromisoformat(end_time)
ValidIso(start_time, end_time) ==
    fromisoformat(start_time).ok /\ fromisoformat(end_time).ok

\* if 'T' not in start_time: start_time += 'T00:00:00'
PadTime(s) == IF ~HasT(s) THEN AppendMidnight(s) ELSE s

\* book_appointment_tool(booking_details)
book_appointment_tool(avail, cal, beh, input, now) ==
    LET start_time == PadTime(input.start)
        end_time == PadTime(input.end)
        c == create_event(avail, cal, beh, start_time, end_time, now)
        called == [ToolResult(c.raised, c.exc, NoText, FALSE) EXCEPT
                      !.createCalls = 1, !.insertCalls = c.insertCalls,
                      !.created = c.created]
    IN Catch(
         IF input.nfields < MinFields
         THEN ToolResult(FALSE, "", Text(InvalidFormatPrefix, <<>>, NoId, ""), TRUE)
         ELSE IF ~ValidIso(start_time, end_time)
              THEN ToolResult(TRUE, "ValueError", NoText, FALSE)
         ELSE IF c.raised THEN called
         ELSE [called EXCEPT !.text =
                  Text("Appointment booked successfully! Event ID: ", <<>>, c.id,
                       IF ~avail THEN BookingNote ELSE "")],
         BookingErrorPrefix)

\* the lines of the events, one per event
RECURSIVE EventLines(_, _)
EventLines(events, i) ==
    IF i > Len(events) THEN [err |-> FALSE, lines |-> <<>>]
    ELSE LET start_time == fromisoformat(ReplaceZ(events[i].start_time, FALSE))
             rest == EventLines(events, i + 1)
         IN IF ~start_time.ok \/ rest.err THEN [err |-> TRUE, lines |-> <<>>]
            ELSE [err |-> FALSE, lines |-> <<start_time.t>> \o rest.lines]

\* get_existing_events_tool(date_range)
get_existing_events_tool(avail, cal, beh, input, today) ==
    LET range == parse_date_range(input, today)
        e == get_events(avail, cal, beh, range[1], range[2])
        got == [ToolResult(e.raised, e.exc, NoText, FALSE) EXCEPT
                   !.existing = e.events, !.listCalls = e.listCalls]
        fmt == EventLines(e.events, 1)
    IN Catch(
         IF e.raised THEN got
         ELSE IF e.events = <<>>
              THEN [got EXCEPT !.text =
                       Text("No existing events found for the specified date range.",
                            <<>>, NoId, IF ~avail THEN EventsNote ELSE "")]
         ELSE IF fmt.err THEN [got EXCEPT !.raised = TRUE, !.exc = "ValueError"]
         ELSE [got EXCEPT !.text = Text("Existing events:", fmt.lines, NoId, "")],
         EventsErrorPrefix)

\* the texts a model passes as a date range: "<start> to <end>", a text
\* without "to", a text with "to" more than once
RangeInputs ==
    { [kind |-> "range", start |-> s, end |-> e] : s \in StartArgs, e \in EndArgs }
      \cup { [kind |-> k, start |-> BadStr, end |-> BadStr] : k \in {"plain", "multi"} }

\* the timestamps a model passes in a booking
BookTimes ==
    { DateStr(0), Str("dt", 10 * 60), Str("dts", 10 * 60), BadStr, BadTStr }

BookInputs ==
    { [kind |-> "book", nfields |-> n, start |-> s, end |-> e] :
          n \in 1 .. MaxFields, s \in BookTimes, e \in BookTimes }

----------------------------------------------------------------------------
(* The agent: AIBookingAgent._create_agent and process_message *)

Tasks == {"t1", "t2"}

\* the session ids callers send; NoSession is a request without one
SessionIds == {"s1"}
NoSession == ""

Messages == {"hello"}

\* the texts a model gives after "Final Answer:"
Answers == {"Done.", ""}

StoppedText == "Agent stopped due to iteration limit or time limit."
ParseErrorObservation == "Invalid or incomplete response"
InvalidToolObservation == "is not a valid tool, try one of [check_availability, book_appointment, get_existing_events]"

\* the errors a language model client raises: the phrases that str(e).lower()
\* holds, among those process_message looks for
ErrorMessages ==
    { {"api key"}, {"invalid_api_key"}, {"quota"}, {"rate limit"}, {} }

Turn(r, c) == [role |-> r, content |-> c]

Result(txt, ex) == [text |-> txt, extra |-> ex]
NoResult == Result("", "")

\* the JSON body chat_endpoint returns
ChatResponse(r, sid) == [response |-> r, session_id |-> sid]
NoResponse == ChatResponse(NoResult, NoSession)

IdleTask ==
    [pc |-> "idle", requested |-> NoSession, session_id |-> NoSession,
     message |-> "", history |-> <<>>,
     iterations |-> 0, calls |-> 0, out |-> "", obs |-> "", output |-> "", how |-> "",
     error |-> {}, raised |-> FALSE, result |-> NoResult, response |-> NoResponse]

history_textMut(messages) ==
    [i \in 1 .. Len(messages) |->
        [speaker |-> IF messages[i].role = "user" THEN "Human" ELSE "Assistant",
         content |-> messages[i].content]]

get_sessionMut(ss, session_id) ==
    [x \in DOMAIN ss \cup {session_id} |-> IF x = session_id THEN <<>> ELSE ss[x]]

\* if session_id not in self.sessions: self.sessions[session_id] = ChatMessageHistory()
get_session(ss, session_id) ==
    IF session_id \in DOMAIN ss THEN ss
    ELSE [x \in DOMAIN ss \cup {session_id} |-> IF x = session_id THEN <<>> ELSE ss[x]]

\* chat_history.messages[-6:], rendered as Human: / Assistant: lines
history_text(messages) ==
    LET n == Len(messages)
        from == IF n > HistoryWindow THEN n - HistoryWindow + 1 ELSE 1
    IN [i \in 1 .. (n - from + 1) |->
           [speaker |-> IF messages[from + i - 1].role = "user" THEN "Human"
                        ELSE "Assistant",
            content |-> messages[from + i - 1].content]]

\* session_id = f"session_{datetime.now().timestamp()}"
GeneratedId(n) ==
    CASE n = 0 -> "session_0" [] n = 1 -> "session_1" [] n = 2 -> "session_2"
      [] n = 3 -> "session_3" [] OTHER -> "session_4"

ShouldContinueMut(iterations) == iterations <= max_iterations

\* AgentExecutor(max_iterations=5): the loop runs while iterations < 5
ShouldContinue(iterations) == iterations < max_iterations

\* the except branch of process_message: the text for the error e
error_msg(e) ==
    IF "API key" \in e \/ "invalid_api_key" \in e
    THEN Result("API Key Error!", "")
    ELSE IF "quota" \in e
    THEN Result("I apologize, but I encountered an error: ",
                "This looks like a quota/billing issue. Consider switching to Groq or Google Gemini.")
    ELSE IF "rate limit" \in e
    THEN Result("I apologize, but I encountered an error: ",
                "Rate limit exceeded. Please wait a moment and try again.")
    ELSE Result("I apologize, but I encountered an error: ", "")

CaughtMut(e) == e # {}

\* except Exception as e: every error of the model and of the executor is caught
Caught(e) == TRUE

\* chat_endpoint: the text of process_message and the session_id of the request
chat_endpoint(requested, r) == ChatResponse(r, requested)

handle_parsing_errorsMut(tk, o) ==
    [tk EXCEPT !.pc = "idle", !.calls = @ + 1, !.out = "malformed", !.how = "error",
               !.obs = "", !.result = error_msg({})]

\* handle_parsing_errors=True: the output that does not parse becomes the
\* observation of an iteration, and the loop goes on
handle_parsing_errors(tk, o) ==
    [tk EXCEPT !.iterations = @ + 1, !.calls = @ + 1, !.out = "malformed", !.obs = o]

\* process_message up to the call of the agent: the session is looked up or
\* created and the history is rendered
ProcessMessage(t) ==
    /\ task[t].pc = "idle"
    /\ invocations < MaxInvocations
    /\ \E message \in Messages, sid \in SessionIds \cup {NoSession} :
          LET session_id == IF sid = NoSession THEN GeneratedId(invocations) ELSE sid
              known == session_id \in DOMAIN sessions
              chat_history == IF known THEN sessions[session_id] ELSE <<>>
          IN /\ sessions' = get_session(sessions, session_id)
             /\ task' = [task EXCEPT ![t] =
                           [IdleTask EXCEPT !.pc = "running", !.requested = sid,
                                            !.session_id = session_id,
                                            !.message = message,
                                            !.history = history_text(chat_history)]]
    /\ invocations' = invocations + 1
    /\ UNCHANGED <<is_available, calendar, last>>

\* the tool calls a model makes in a conversation
AgentRange == [kind |-> "plain", start |-> BadStr, end |-> BadStr]

AgentBookings ==
    { [kind |-> "book", nfields |-> n, start |-> DateStr(0), end |-> DateStr(0)] :
          n \in {1, MaxFields} }

\* one iteration: the model answers with a tool call, and the tool runs
ModelCallsTool(t) ==
    /\ task[t].pc = "running"
    /\ ShouldContinue(task[t].iterations)
    /\ \E beh \in Behaviours :
          \/ /\ task' = [task EXCEPT ![t].iterations = @ + 1, ![t].calls = @ + 1,
                            ![t].out = "tool",
                            ![t].obs = check_availability_tool(is_available, calendar, beh,
                                                               AgentRange, 0).text.head]
             /\ UNCHANGED calendar
          \/ /\ task' = [task EXCEPT ![t].iterations = @ + 1, ![t].calls = @ + 1,
                            ![t].out = "tool",
                            ![t].obs = get_existing_events_tool(is_available, calendar, beh,
                                                                AgentRange, 0).text.head]
             /\ UNCHANGED calendar
          \/ /\ Cardinality(calendar) < MaxEvents
             /\ \E input \in AgentBookings :
                   LET r == book_appointment_tool(is_available, calendar, beh, input, 0)
                   IN /\ task' = [task EXCEPT ![t].iterations = @ + 1, ![t].calls = @ + 1,
                            ![t].out = "tool",
                                     ![t].obs = r.text.head]
                      /\ calendar' = calendar \cup r.created
    /\ UNCHANGED <<is_available, last, sessions, invocations>>

\* one iteration: the model names no tool of the agent, or its output does not
\* parse (handle_parsing_errors=True): the loop observes a corrective text
ModelOutputRejected(t) ==
    /\ task[t].pc = "running"
    /\ ShouldContinue(task[t].iterations)
    /\ \E o \in {ParseErrorObservation, InvalidToolObservation} :
          task' = [task EXCEPT ![t] = handle_parsing_errors(task[t], o)]
    /\ UNCHANGED <<is_available, calendar, last, sessions, invocations>>

\* the model gives a Final Answer: the executor is about to return it
ModelFinalAnswer(t) ==
    /\ task[t].pc = "running"
    /\ ShouldContinue(task[t].iterations)
    /\ \E a \in Answers :
          task' = [task EXCEPT ![t].pc = "returning", ![t].calls = @ + 1,
                               ![t].out = "final", ![t].output = a, ![t].how = "final"]
    /\ UNCHANGED <<is_available, calendar, last, sessions, invocations>>

\* early_stopping_method="force": the loop ended without a Final Answer
ForcedStop(t) ==
    /\ task[t].pc = "running"
    /\ ~ShouldContinue(task[t].iterations)
    /\ task' = [task EXCEPT ![t].pc = "returning", ![t].output = StoppedText,
                            ![t].how = "forced"]
    /\ UNCHANGED <<is_available, calendar, last, sessions, invocations>>

\* the call of the model raises: process_message returns an error text
ModelRaises(t) ==
    /\ task[t].pc = "running"
    /\ ShouldContinue(task[t].iterations)
    /\ \E e \in ErrorMessages :
          LET r == IF Caught(e) THEN error_msg(e) ELSE NoResult
          IN task' = [task EXCEPT ![t].pc = "idle", ![t].calls = @ + 1, ![t].how = "error",
                                  ![t].out = "raise", ![t].obs = "", ![t].error = e,
                                  ![t].history = <<>>,
                                  ![t].raised = ~Caught(e), ![t].result = r,
                                  ![t].response = chat_endpoint(task[t].requested, r)]
    /\ UNCHANGED <<is_available, calendar, last, sessions, invocations>>

add_messagesMut(messages, message, output) ==
    <<Turn("user", message)>> \o messages \o <<Turn("ai", output)>>

\* chat_history.add_user_message(message); chat_history.add_ai_message(output)
add_messages(messages, message, output) ==
    messages \o <<Turn("user", message), Turn("ai", output)>>

\* the agent returned: both turns are added to the transcript, the output is
\* returned, and the scratchpad and the rendered history are dropped
Complete(t) ==
    /\ task[t].pc = "returning"
    /\ sessions' = [sessions EXCEPT ![task[t].session_id] =
                       add_messages(@, task[t].message, task[t].output)]
    /\ task' = [task EXCEPT ![t].pc = "idle", ![t].obs = "", ![t].history = <<>>,
                            ![t].result = Result(task[t].output, ""),
                            ![t].response = chat_endpoint(task[t].requested,
                                                          Result(task[t].output, ""))]
    /\ UNCHANGED <<is_available, calendar, last, invocations>>

InitAgent ==
    /\ is_available \in BOOLEAN
    /\ calendar = {}
    /\ last = NoCall
    /\ sessions = <<>>
    /\ task = [t \in Tasks |-> IdleTask]
    /\ invocations = 0

\* one caller: each invocation starts after the one before it has returned
Caller == "t1"

NextAgent ==
    \/ (invocations < MaxSequential /\ ProcessMessage(Caller))
    \/ ModelCallsTool(Caller)
    \/ ModelOutputRejected(Caller)
    \/ ModelFinalAnswer(Caller)
    \/ ForcedStop(Caller)
    \/ ModelRaises(Caller)
    \/ Complete(Caller)

SpecAgent == InitAgent /\ [][NextAgent]_vars

\* concurrent callers: process_message is a coroutine, and while one
\* invocation awaits the model another may start, run and return
NextTasks ==
    \E t \in Tasks :
        \/ ProcessMessage(t)
        \/ ModelFinalAnswer(t)
        \/ (invocations <= MaxFailing /\ ModelRaises(t))
        \/ Complete(t)

SpecTasks == InitAgent /\ [][NextTasks]_vars

----------------------------------------------------------------------------
(* Operations *)

Record(op, a, beh, r) ==
    [NoCall EXCEPT !.op = op, !.args = a, !.beh = beh, !.raised = r.raised,
                   !.exc = r.exc, !.slots = r.slots, !.usedMock = r.usedMock,
                   !.existing = r.existing, !.listCalls = r.listCalls]

RecordTool(op, a, beh, r) ==
    [Record(op, a, beh, r) EXCEPT !.text = r.text, !.failed = r.failed,
                   !.createCalls = r.createCalls, !.insertCalls = r.insertCalls,
                   !.created = r.created]

ArgsOf(input, d) ==
    [NoArgs EXCEPT !.start = input.start, !.end = input.end, !.kind = input.kind,
                   !.duration = d]

\* POST /availability
GetAvailability ==
    /\ last.op = "none"
    /\ \E start_date \in StartArgs, end_date \in EndArgs, d \in Durations, beh \in Behaviours :
          last' = Record("get_availability",
                         [NoArgs EXCEPT !.start = start_date, !.end = end_date,
                                        !.duration = d],
                         beh,
                         get_availability(is_available, calendar, beh,
                                          start_date, end_date, d))
    /\ UNCHANGED <<is_available, calendar>>
    /\ UNCHANGED agentVars

\* the agent runs the tool check_availability
CheckAvailabilityTool ==
    /\ last.op = "none"
    /\ \E input \in RangeInputs, today \in Days, beh \in Behaviours :
          /\ input.kind = "range" => today = 0    \* today is read only for the default range
          /\ last' = RecordTool("check_availability",
                                [ArgsOf(input, DefaultDuration) EXCEPT
                                    !.start = parse_date_range(input, today)[1],
                                    !.end = parse_date_range(input, today)[2]],
                                beh,
                                check_availability_tool(is_available, calendar, beh,
                                                        input, today))
    /\ UNCHANGED <<is_available, calendar>>
    /\ UNCHANGED agentVars

\* the agent runs the tool book_appointment
BookAppointmentTool ==
    /\ last.op = "none"
    /\ Cardinality(calendar) < MaxEvents
    /\ \E input \in BookInputs, now \in Days, beh \in Behaviours :
          LET r == book_appointment_tool(is_available, calendar, beh, input, now)
          IN /\ last' = RecordTool("book_appointment",
                                   [ArgsOf(input, 0) EXCEPT !.nfields = input.nfields],
                                   beh, r)
             /\ calendar' = calendar \cup r.created
    /\ UNCHANGED is_available
    /\ UNCHANGED agentVars

\* the agent runs the tool get_existing_events
GetExistingEventsTool ==
    /\ last.op = "none"
    /\ \E input \in RangeInputs, today \in Days, beh \in Behaviours :
          /\ input.kind = "range" => today = 0    \* today is read only for the default range
          /\ last' = RecordTool("get_existing_events",
                                [ArgsOf(input, 0) EXCEPT
                                    !.start = parse_date_range(input, today)[1],
                                    !.end = parse_date_range(input, today)[2]],
                                beh,
                                get_existing_events_tool(is_available, calendar, beh,
                                                         input, today))
    /\ UNCHANGED <<is_available, calendar>>
    /\ UNCHANGED agentVars

\* the start_time and end_time of a POST /book
CreateTimes == { Str("dt", 9 * 60), Str("dt", 10 * 60) }

\* POST /book
CreateEvent ==
    /\ last.op = "none"
    /\ Cardinality(calendar) < MaxEvents
    /\ \E start_time \in CreateTimes, end_time \in CreateTimes, beh \in Behaviours :
          LET r == create_event(is_available, calendar, beh, start_time, end_time, 0)
          IN /\ last' = [NoCall EXCEPT !.op = "create_event",
                                       !.args = [NoArgs EXCEPT !.start = start_time,
                                                               !.end = end_time],
                                       !.beh = beh, !.raised = r.raised, !.exc = r.exc,
                                       !.createCalls = 1, !.insertCalls = r.insertCalls,
                                       !.created = r.created, !.event_id = r.id,
                                       !.success = ~r.raised]
             /\ calendar' = calendar \cup r.created
    /\ UNCHANGED is_available
    /\ UNCHANGED agentVars

\* DELETE /events/{event_id}; 0 is an id no event has
DeleteEvent ==
    /\ last.op = "none"
    /\ \E event_id \in { e.id : e \in calendar } \cup {0}, beh \in Behaviours :
          LET r == delete_event(is_available, calendar, beh, event_id)
          IN /\ last' = [NoCall EXCEPT !.op = "delete_event",
                                       !.args = [NoArgs EXCEPT !.event_id = event_id],
                                       !.beh = beh, !.raised = r.raised, !.exc = r.exc,
                                       !.deleteCalls = r.deleteCalls,
                                       !.deleted = r.deleted, !.success = r.value]
             /\ calendar' = calendar \ r.deleted
    /\ UNCHANGED is_available
    /\ UNCHANGED agentVars

\* the response leaves the process; the service keeps no record of the call
Return ==
    /\ last.op # "none"
    /\ last' = NoCall
    /\ UNCHANGED <<is_available, calendar>>
    /\ UNCHANGED agentVars

Init ==
    /\ is_available \in BOOLEAN
    /\ calendar \in { c \in SUBSET EventPool : Cardinality(c) <= MaxEvents }
    /\ last = NoCall
    /\ sessions = <<>>
    /\ task = [t \in Tasks |-> IdleTask]
    /\ invocations = 0

Next ==
    \/ GetAvailability
    \/ CheckAvailabilityTool
    \/ BookAppointmentTool
    \/ GetExistingEventsTool
    \/ CreateEvent
    \/ DeleteEvent
    \/ Return

Spec == Init /\ [][Next]_vars

----------------------------------------------------------------------------
(* What the claims speak of, stated without the operators of the service *)

AvailOps == {"get_availability", "check_availability"}

Parsable(s) == s.fmt \in {"date", "dt"}

StartDay == last.args.start.t \div (24 * 60)
EndDay == last.args.end.t \div (24 * 60)

\* get_availability returned from its computation over the listed events
RealPath ==
    /\ last.op \in AvailOps
    /\ is_available
    /\ ~last.raised /\ ~last.failed /\ ~last.usedMock

\* the start of one slot per Monday-to-Friday date of the range and hour 9..16
Candidates ==
    { d * 24 * 60 + h * 60 :
          d \in { x \in StartDay .. EndDay : weekday(x) \in 0 .. 4 }, h \in 9 .. 16 }

\* the mock slots: hours 9, 11, 14, 16 of the Monday-to-Friday dates
MockStarts ==
    { d * 24 * 60 + h * 60 :
          d \in { x \in StartDay .. EndDay : weekday(x) \in 0 .. 4 }, h \in {9, 11, 14, 16} }

\* some listed busy interval [b0, b1) has s < b1 and s + duration > b0
Conflict(s) ==
    \E i \in 1 .. Len(last.existing) :
        /\ last.existing[i].start_time.fmt # "bad"
        /\ s < last.existing[i].end_time.t
        /\ s + last.args.duration > last.existing[i].start_time.t

\* some listed busy interval only touches the slot
Touches(s) ==
    \E i \in 1 .. Len(last.existing) :
        /\ last.existing[i].start_time.fmt # "bad"
        /\ \/ s + last.args.duration = last.existing[i].start_time.t
           \/ s = last.existing[i].end_time.t

InResult(s) ==
    \E i \in 1 .. Len(last.slots) :
        /\ last.slots[i].start_time = [fmt |-> "dt", t |-> s]
        /\ last.slots[i].end_time = [fmt |-> "dt", t |-> s + last.args.duration]

RECURSIVE Ascending(_)
Ascending(S) ==
    IF S = {} THEN <<>>
    ELSE LET m == CHOOSE x \in S : \A y \in S : x <= y
         IN <<m>> \o Ascending(S \ {m})

First(seq, n) == SubSeq(seq, 1, IF Len(seq) < n THEN Len(seq) ELSE n)

AsSlots(starts) ==
    [i \in 1 .. Len(starts) |->
        [start_time |-> [fmt |-> "dt", t |-> starts[i]],
         end_time |-> [fmt |-> "dt", t |-> starts[i] + last.args.duration],
         available |-> TRUE]]

Free == { s \in Candidates : ~Conflict(s) }

----------------------------------------------------------------------------
(* C1 *)

\* C1, as stated: in the real path a candidate slot is in the result if and
\* only if no listed busy interval overlaps it.
C1_AsStated ==
    RealPath => \A s \in Candidates : InResult(s) <=> ~Conflict(s)

\* C1, amended: in the real path a candidate slot is in the result if and only
\* if no listed busy interval [b0, b1) has s < b1 and s + duration > b0 and
\* fewer than 20 earlier candidate slots are free of such an interval; an
\* interval that only touches the slot does not exclude it.
C1_Overlap ==
    RealPath =>
        \A s \in Candidates :
            InResult(s) <=>
                /\ ~Conflict(s)
                /\ Cardinality({ u \in Free : u < s }) < 20

\* a run of the real path that returns a slot a busy interval touches, leaves
\* out a slot a busy interval overlaps and leaves out a free slot past the 20th
C1_Witness ==
    /\ RealPath
    /\ \E s \in Candidates : Touches(s) /\ ~Conflict(s) /\ InResult(s)
    /\ \E s \in Candidates : Conflict(s) /\ ~InResult(s)
    /\ \E s \in Candidates : ~Conflict(s) /\ ~InResult(s)

(* C2 *)

\* C2: in the real path with no busy interval the candidate slots are one per
\* Monday-to-Friday date of the range and hour 9..16, in time order, each with
\* end = start + duration and available; the result holds the first 20 of them;
\* a range inside one weekend gives none and a single Monday gives 8.
C2_Candidates ==
    (RealPath /\ last.existing = <<>>) =>
        /\ last.slots = AsSlots(First(Ascending(Candidates), 20))
        /\ (\A d \in StartDay .. EndDay : weekday(d) \in {5, 6}) => last.slots = <<>>
        /\ (StartDay = EndDay /\ weekday(StartDay) = 0) =>
              /\ Len(last.slots) = 8
              /\ \A i \in 1 .. 8 :
                    last.slots[i].start_time.t = StartDay * 24 * 60 + (8 + i) * 60

\* the real path on a single Monday, no busy interval, 8 slots returned
C2_Witness ==
    /\ RealPath /\ last.existing = <<>>
    /\ StartDay = EndDay /\ weekday(StartDay) = 0
    /\ Len(last.slots) = 8

(* C3 *)

\* C3: the real path returns at most 20 slots, and they are the first 20 (or
\* all) of the free candidate slots in time order.
C3_Truncation ==
    RealPath =>
        /\ Len(last.slots) <= 20
        /\ last.slots = AsSlots(First(Ascending(Free), 20))

\* more than 20 free candidates, some busy interval listed, 20 slots returned
C3_Witness ==
    /\ RealPath
    /\ Cardinality(Free) > 20
    /\ Free # Candidates
    /\ Len(last.slots) = 20

(* C4 *)

\* C4: with the provider unavailable get_availability lists no events and
\* returns the mock sequence, hours 9, 11, 14, 16 of the weekdays of the range
\* cut to the first 10: a function of the arguments alone.
C4_Mock ==
    (/\ last.op \in AvailOps
     /\ ~is_available
     /\ Parsable(last.args.start) /\ Parsable(last.args.end)) =>
        /\ ~last.raised /\ ~last.failed
        /\ last.listCalls = 0
        /\ Len(last.slots) <= 10
        /\ last.slots = AsSlots(First(Ascending(MockStarts), 10))

\* the provider is unavailable, holds events and would fail; more than 10 mock
\* slots lie in the range and 10 are returned
C4_Witness ==
    /\ last.op = "get_availability"
    /\ ~is_available
    /\ calendar # {}
    /\ last.beh = "exc"
    /\ Cardinality(MockStarts) > 10
    /\ Len(last.slots) = 10

(* C5 *)

\* a failure during the real computation: the provider failed while listing,
\* or a date argument does not parse
RealFailure ==
    \/ last.listCalls = 1 /\ last.beh \in {"http", "exc"}
    \/ ~Parsable(last.args.start)
    \/ ~Parsable(last.args.end)

\* C5: with the provider available, a failure during the real computation is
\* not propagated: get_availability returns the mock sequence of the arguments.
C5_Degrades ==
    (last.op = "get_availability" /\ is_available /\ RealFailure) =>
        /\ ~last.raised
        /\ last.slots = AsSlots(First(Ascending(MockStarts), 10))

(* C6 *)

\* C6: a reply of check_availability that lists slots carries the demo-mode
\* note when the slots are mock data (the provider is unavailable, or the real
\* computation failed and fell back to the mock generator) and does not when
\* they come from the real computation.
C6_DemoNote ==
    (last.op = "check_availability" /\ ~last.failed /\ last.slots # <<>>) =>
        (last.usedMock <=> last.text.note = AvailabilityNote)

(* C7 *)

ToolOps == {"check_availability", "book_appointment", "get_existing_events"}

ErrorPrefixes(op) ==
    CASE op = "check_availability" -> {"Error checking availability: "}
      [] op = "book_appointment" ->
             {"Invalid booking format", "Error booking appointment: "}
      [] op = "get_existing_events" -> {"Error getting events: "}

\* the text a booking pads and validates
Padded(s) == s.fmt \in {"date", "dt"}

\* the tool's operation fails: an error reaches the tool, or the format is
\* rejected
ToolFails ==
    CASE last.op = "check_availability" ->
             ~Parsable(last.args.start) \/ ~Parsable(last.args.end)
      [] last.op = "book_appointment" ->
             \/ last.args.nfields < 4
             \/ ~Padded(last.args.start) \/ ~Padded(last.args.end)
             \/ is_available /\ last.beh # "ok"
      [] last.op = "get_existing_events" ->
             /\ is_available
             /\ \/ ~Parsable(last.args.start) \/ ~Parsable(last.args.end)
                \/ last.beh = "exc"
                \/ \E i \in 1 .. Len(last.existing) :
                       last.existing[i].start_time.fmt = "bad"

WellFormed(a) == a.nfields >= 4 /\ Padded(a.start) /\ Padded(a.end)

\* C8: book_appointment calls create_event only for an input of at least 4
\* fields whose padded start and end parse; otherwise create_event is not
\* called, the calendar is left as it was and an error text is returned.
C8_ValidatedBeforeCreate ==
    [][last'.op = "book_appointment" =>
          /\ last'.createCalls > 0 => WellFormed(last'.args)
          /\ ~WellFormed(last'.args) =>
                /\ last'.createCalls = 0 /\ last'.insertCalls = 0
                /\ calendar' = calendar
                /\ last'.text.head \in ErrorPrefixes("book_appointment")]_vars

\* a booking of 4 fields or more whose end does not parse, with the provider
\* available: an error text and no call
C8_Witness ==
    /\ last.op = "book_appointment"
    /\ is_available /\ last.beh = "ok"
    /\ last.args.nfields >= 4
    /\ Padded(last.args.start) /\ ~Padded(last.args.end)
    /\ last.createCalls = 0
    /\ last.text.head = "Error booking appointment: "

(* C9 *)

\* C9: with the provider unavailable a well-formed booking returns a success
\* text with an event id that begins with mock_event_ and the demo-mode note,
\* and the remote provider is not called.
C9_MockBooking ==
    (last.op = "book_appointment" /\ ~is_available /\ WellFormed(last.args)) =>
        /\ ~last.raised
        /\ last.text.head = "Appointment booked successfully! Event ID: "
        /\ last.text.eventId.prefix = "mock_event_"
        /\ last.text.note = BookingNote
        /\ last.insertCalls = 0 /\ last.listCalls = 0
        /\ last.created = {}

\* the booking "Standup|Daily sync|<date>|<date>|a@b.com" with the provider
\* unavailable
C9_Witness ==
    /\ last.op = "book_appointment" /\ ~is_available
    /\ last.args.nfields = 5
    /\ last.args.start.fmt = "date" /\ last.args.end.fmt = "date"
    /\ last.text.eventId.prefix = "mock_event_"

(* C10 *)

\* C10: an invocation whose model never gives a Final Answer calls the model
\* at most 5 times, one per iteration, is then stopped by force, and
\* process_message returns a non-empty text.
C10_LoopBound ==
    \A t \in Tasks :
        /\ task[t].iterations <= 5 /\ task[t].calls <= 5
        /\ task[t].how = "forced" =>
              /\ task[t].iterations = 5 /\ task[t].calls = 5
              /\ task[t].pc \in {"returning", "idle"}
        /\ (task[t].pc = "idle" /\ task[t].how \in {"forced", "error"}) =>
              task[t].result.text # ""

\* an invocation that was stopped by force after 5 iterations has returned
C10_Witness ==
    \E t \in Tasks :
        /\ task[t].pc = "idle" /\ task[t].how = "forced"
        /\ task[t].calls = 5
        /\ task[t].result.text = "Agent stopped due to iteration limit or time limit."

----------------------------------------------------------------------------
(* The claims on process_message *)

\* the invocation of t returns to its caller at this step
Returns(t) == task[t].pc # "idle" /\ task'[t].pc = "idle"

\* t has returned from an invocation
Returned(t) == task[t].pc = "idle" /\ task[t].how # ""

CorrectiveObservations ==
    {"Invalid or incomplete response",
     "is not a valid tool, try one of [check_availability, book_appointment, get_existing_events]"}

(* C11 *)

\* C11: an invocation that returns a Final Answer appends the user message
\* and the answer to the transcript of its session; an invocation that
\* returns a text the model did not give (the error text, the text of the
\* forced stop) leaves every transcript as it was.
C11_TwoTurnsOrNone ==
    [][\A t \in Tasks :
          Returns(t) =>
              IF task'[t].how = "final"
              THEN sessions' =
                       [sessions EXCEPT ![task[t].session_id] =
                           @ \o <<[role |-> "user", content |-> task[t].message],
                                  [role |-> "ai", content |-> task'[t].result.text]>>]
              ELSE sessions' = sessions]_vars

(* C12 *)

\* C12: process_message never raises: an invocation that has returned gave
\* its caller a text, the Final Answer or the text of the forced stop as the
\* executor gave it and a non-empty error text when the model raised.
C12_NeverRaises ==
    \A t \in Tasks :
        /\ ~task[t].raised
        /\ Returned(t) =>
              /\ task[t].response.response = task[t].result
              /\ task[t].how \in {"final", "forced"} =>
                    task[t].result.text = task[t].output
              /\ task[t].how = "error" => task[t].result.text # ""

\* the model raised an error of no known kind and the caller got the text
C12_Witness ==
    \E t \in Tasks :
        /\ Returned(t) /\ task[t].how = "error" /\ task[t].error = {}
        /\ ~task[t].raised
        /\ task[t].result.text = "I apologize, but I encountered an error: "

(* C13 *)

\* C13: the error text is chosen by the phrases of the error message: "api
\* key" gives the API-key text, "quota" the quota text, "rate limit" the
\* rate-limit text, and an error with none of them only the generic text.
C13_Classification ==
    \A t \in Tasks :
        (Returned(t) /\ task[t].how = "error") =>
            /\ "api key" \in task[t].error => task[t].result.text = "API Key Error!"
            /\ "quota" \in task[t].error =>
                  task[t].result.extra =
                      "This looks like a quota/billing issue. Consider switching to Groq or Google Gemini."
            /\ "rate limit" \in task[t].error =>
                  task[t].result.extra =
                      "Rate limit exceeded. Please wait a moment and try again."
            /\ task[t].error \cap {"api key", "quota", "rate limit"} = {} =>
                  /\ task[t].result.text = "I apologize, but I encountered an error: "
                  /\ task[t].result.extra = ""

(* C15 *)

\* C15: the session_id of the response to /chat names the session that holds
\* the turns of the request, also when the request carried none.
C15_ResponseNamesSession ==
    \A t \in Tasks :
        (Returned(t) /\ task[t].how = "final") =>
            /\ task[t].response.session_id = task[t].session_id
            /\ task[t].response.session_id \in DOMAIN sessions

(* C19 *)

\* C19: an invocation stopped by force at the iteration cap commits nothing:
\* the transcripts are as they were when it returns.
C19_ForcedStopCommitsNothing ==
    [][\A t \in Tasks :
          (Returns(t) /\ task'[t].how = "forced") => sessions' = sessions]_vars

(* C20 *)

\* C20: a model output that does not parse ends nothing: it becomes a
\* corrective observation and takes one iteration, and below the cap the next
\* step of the invocation is a call of the model; each call of the model in a
\* running invocation has its observation before the next call.
C20_MalformedOutput ==
    [][\A t \in Tasks :
          /\ (task'[t].out = "malformed" /\ task'[t].calls = task[t].calls + 1) =>
                /\ task'[t].pc = "running"
                /\ task'[t].iterations = task[t].iterations + 1
                /\ task'[t].iterations <= 5
                /\ task'[t].obs \in CorrectiveObservations
          /\ (task[t].pc = "running" /\ task[t].out = "malformed" /\ task'[t] # task[t]) =>
                IF task[t].iterations < 5
                THEN task'[t].calls = task[t].calls + 1
                ELSE task'[t].how = "forced"
          /\ task'[t].pc = "running" => task'[t].calls = task'[t].iterations
          /\ task'[t].iterations \in {0, task[t].iterations, task[t].iterations + 1}]_vars

\* an invocation whose model gave a malformed output and then, called again,
\* a Final Answer
C20_Witness ==
    \E t \in Tasks :
        /\ task[t].pc = "returning" /\ task[t].how = "final"
        /\ task[t].iterations = 1 /\ task[t].calls = 2
        /\ task[t].obs = "Invalid or incomplete response"

----------------------------------------------------------------------------
(* C14 *)

\* C14: with the provider available a failure of the provider during
\* create_event or delete_event is raised to the caller; with the provider
\* unavailable both return their mock success and the provider is not called.
C14_Reraised ==
    last.op \in {"create_event", "delete_event"} =>
        /\ (is_available /\ last.beh \in {"http", "exc"}) =>
              /\ last.raised
              /\ ~last.success
        /\ ~is_available =>
              /\ ~last.raised /\ last.success
              /\ last.insertCalls = 0 /\ last.deleteCalls = 0
              /\ last.op = "create_event" => last.event_id.prefix = "mock_event_"

(* C18 *)

\* C18: with the provider available and answering, no slot get_availability
\* returns from the listed events overlaps an event the calendar holds, the
\* events of the last date of the range among them.
C18_NoSlotOverStoredEvent ==
    (/\ last.op = "get_availability"
     /\ is_available /\ last.beh = "ok"
     /\ ~last.raised /\ ~last.usedMock) =>
        \A i \in 1 .. Len(last.slots) :
            \A e \in calendar :
                e.start_time.fmt # "bad" =>
                    ~(/\ last.slots[i].start_time.t < e.end_time.t
                      /\ last.slots[i].end_time.t > e.start_time.t)

----------------------------------------------------------------------------
(* The claims on concurrent invocations *)

\* seq begins with the turns of pre
IsPrefix(pre, seq) ==
    /\ Len(pre) <= Len(seq)
    /\ \A i \in 1 .. Len(pre) : seq[i] = pre[i]

\* the step is a step of the invocation of t
Acts(t) == task'[t] # task[t]

(* C16 *)

\* C16: under any interleaving no session is removed or replaced, a session
\* is created empty by the first message for its id and only by it, a
\* transcript changes only by the two turns an invocation for that session
\* commits at its end, and every committed turn stays in its place.
C16_SessionsKept ==
    [][/\ DOMAIN sessions \subseteq DOMAIN sessions'
       /\ \A sid \in DOMAIN sessions : IsPrefix(sessions[sid], sessions'[sid])
       /\ \A sid \in DOMAIN sessions' \ DOMAIN sessions :
             /\ sessions'[sid] = <<>>
             /\ DOMAIN sessions' = DOMAIN sessions \cup {sid}
             /\ \E t \in Tasks :
                   Acts(t) /\ task[t].pc = "idle" /\ task'[t].session_id = sid
       /\ \A sid \in DOMAIN sessions :
             sessions'[sid] # sessions[sid] =>
                 \E t \in Tasks :
                     /\ Acts(t) /\ Returns(t) /\ task[t].session_id = sid
                     /\ sessions'[sid] =
                            sessions[sid] \o
                                <<[role |-> "user", content |-> task[t].message],
                                  [role |-> "ai", content |-> task[t].output]>>
                     /\ \A other \in DOMAIN sessions \ {sid} :
                            sessions'[other] = sessions[other]]_vars

\* two first messages for the same unseen id ran together: one has returned
\* and its two turns are in the one session, the other, started on the empty
\* session, is about to commit, while a third session has turns of its own
C16_Witness ==
    /\ task["t1"].pc = "idle" /\ task["t1"].how = "final"
    /\ task["t1"].session_id = "s1"
    /\ task["t2"].pc = "returning" /\ task["t2"].session_id = "s1"
    /\ task["t2"].history = <<>>
    /\ invocations = 3
    /\ Len(sessions["s1"]) = 2
    /\ \E sid \in DOMAIN sessions \ {"s1"} : Len(sessions[sid]) = 2

(* C17 *)

\* C17: the history an invocation gives the model is the last min(6, n) turns
\* of the n turns its session held when the invocation started, in order, as
\* Human and Assistant lines; it does not hold the message of the invocation,
\* and turns committed while the invocation waits do not change it.
C17_HistoryWindow ==
    [][\A t \in Tasks :
          /\ (task[t].pc = "idle" /\ task'[t].pc = "running") =>
                LET sid == task'[t].session_id
                    before == IF sid \in DOMAIN sessions THEN sessions[sid] ELSE <<>>
                    n == Len(before)
                    k == IF n < 6 THEN n ELSE 6
                IN /\ Len(task'[t].history) = k
                   /\ \A i \in 1 .. k :
                         /\ task'[t].history[i].content = before[n - k + i].content
                         /\ task'[t].history[i].speaker =
                                IF before[n - k + i].role = "user" THEN "Human"
                                ELSE "Assistant"
          /\ (task[t].pc # "idle" /\ task'[t].pc # "idle") =>
                task'[t].history = task[t].history]_vars

\* an invocation that started on a session of 8 turns waits on the model with
\* turns 3 to 8 as its history: the answer of turn 4, not the one of turn 2,
\* is its second line
C17_Witness ==
    \E t \in Tasks :
        /\ task[t].pc = "running"
        /\ Len(sessions[task[t].session_id]) = 8
        /\ sessions[task[t].session_id][2].content = ""
        /\ sessions[task[t].session_id][4].content = "Done."
        /\ Len(task[t].history) = 6
        /\ task[t].history[1].speaker = "Human"
        /\ task[t].history[2] = [speaker |-> "Assistant", content |-> "Done."]

(* C21 *)

\* user, assistant, user, assistant, ...
Alternates(seq) ==
    /\ Len(seq) % 2 = 0
    /\ \A i \in 1 .. Len(seq) :
          seq[i].role = IF i % 2 = 1 THEN "user" ELSE "ai"

\* C21: under any interleaving of invocations for one session every
\* transcript alternates user, assistant from a user turn on, and an
\* invocation that commits puts its user turn and its assistant turn, next to
\* each other, at the end of the transcript as it is when the invocation
\* completes, whenever the invocation started.
C21_AdjacentInCompletionOrder ==
    [][/\ \A sid \in DOMAIN sessions' : Alternates(sessions'[sid])
       /\ \A t \in Tasks :
             (Acts(t) /\ Returns(t) /\ task'[t].how # "error") =>
                 LET before == sessions[task[t].session_id]
                     after == sessions'[task[t].session_id]
                     n == Len(before)
                 IN /\ Len(after) = n + 2
                    /\ SubSeq(after, 1, n) = before
                    /\ after[n + 1] = [role |-> "user", content |-> task[t].message]
                    /\ after[n + 2] = [role |-> "ai", content |-> task'[t].result.text]]_vars

\* t1 started on the empty session s1 and has its answer, not yet committed;
\* t2, whose invocation started later, has completed before it: the four
\* turns of s1 are t2's and the turns of t1 will follow them
C21_Witness ==
    /\ task["t1"].pc = "returning" /\ task["t1"].session_id = "s1"
    /\ task["t1"].history = <<>>
    /\ task["t1"].output = ""
    /\ task["t2"].pc = "idle" /\ task["t2"].how = "final"
    /\ task["t2"].session_id = "s1"
    /\ invocations = 3
    /\ Len(sessions["s1"]) = 4
    /\ sessions["s1"][4].content = "Done."

----------------------------------------------------------------------------
(* C22 *)

\* the time a booking text spells, once padded
BookedAt(s) == s.t

\* C22: a booking never lists events: for every well-formed book_appointment
\* input and every POST /book, create_event is called once whatever the
\* calendar holds, and unless the provider fails the booking is reported as
\* made; with the provider available the event is inserted with the times
\* given, be they those of a stored event or an end not after the start.
C22_NoConflictCheck ==
    (/\ last.op \in {"book_appointment", "create_event"}
     /\ last.op = "book_appointment" => WellFormed(last.args)) =>
        /\ last.listCalls = 0
        /\ last.createCalls = 1
        /\ (~is_available \/ last.beh = "ok") =>
              /\ ~last.raised /\ ~last.failed
              /\ last.op = "book_appointment" =>
                    last.text.head = "Appointment booked successfully! Event ID: "
              /\ last.op = "create_event" => last.success
              /\ is_available =>
                    /\ last.insertCalls = 1
                    /\ \E e \in last.created :
                          /\ last.created = {e}
                          /\ e \in calendar
                          /\ e.start_time.t = BookedAt(last.args.start)
                          /\ e.end_time.t = BookedAt(last.args.end)

\* book_appointment has inserted an event whose interval is that of an event
\* the calendar held already: a repeat of a booking, and an overlap
C22_Witness ==
    /\ last.op = "book_appointment" /\ is_available /\ last.beh = "ok"
    /\ last.text.head = "Appointment booked successfully! Event ID: "
    /\ \E e \in last.created :
          /\ e.start_time.t < e.end_time.t
          /\ \E f \in calendar :
                /\ f # e
                /\ f.start_time.t = e.start_time.t
                /\ f.end_time.t = e.end_time.t

====
